---- MODULE Spec2Model ----
(***************************************************************************)
(* ipchk: a concurrent host-liveness sweeper (src/src/main.rs).            *)
(*                                                                         *)
(* Strings are sequences of one-character strings, so that formatting an   *)
(* address and parsing it back are computed and not assumed.  A u32 is a   *)
(* pair <<hi, lo>> of 16-bit halves (TLC's integers are 32-bit signed and  *)
(* cannot hold 2^32 - 1); arithmetic on the pair is arithmetic modulo      *)
(* 2^32.                                                                   *)
(*                                                                         *)
(* The prober is the one of the unix builds (ping_unix_cmd).  A probe      *)
(* thread may panic at any point before its send: that is what the Err of  *)
(* JoinHandle::join, which spawn_batch discards, stands for.               *)
(***************************************************************************)
EXTENDS Integers, Sequences, FiniteSets, TLC

(***************************************************************************)
(* Program constants.                                                      *)
(***************************************************************************)
DEFAULT_TIMEOUT_MS == 2000
DEFAULT_COUNT == 4
DEFAULT_CONCURRENCY == 128

(***************************************************************************)
(* Bounds of the model.                                                    *)
(***************************************************************************)
\* every positional list up to this length is drawn in list mode
MaxTargets == 2
\* largest value given to -c on the command lines drawn
MaxConc == 2
\* cap on the number of addresses taken from a range iterator in one run
MaxTaken == 4
\* cap on the number of probe tasks that crash in one run
MaxPanics == 1

(***************************************************************************)
(* Characters and strings.                                                 *)
(***************************************************************************)
Digits == <<"0", "1", "2", "3", "4", "5", "6", "7", "8", "9">>
DigitSet == {Digits[k] : k \in 1..10}
HexSet == DigitSet \cup {"a", "b", "c", "d", "e", "f"}

DigitVal(ch) == (CHOOSE k \in 1..10 : Digits[k] = ch) - 1

\* u8::to_string: decimal, no leading zeros
DecStr(n) ==
    IF n < 10 THEN <<Digits[n + 1]>>
    ELSE IF n < 100 THEN <<Digits[(n \div 10) + 1], Digits[(n % 10) + 1]>>
    ELSE <<Digits[(n \div 100) + 1], Digits[((n \div 10) % 10) + 1], Digits[(n % 10) + 1]>>

RECURSIVE SplitFrom(_, _, _, _)
SplitFrom(s, c, k, cur) ==
    IF k > Len(s) THEN <<cur>>
    ELSE IF s[k] = c THEN <<cur>> \o SplitFrom(s, c, k + 1, <<>>)
    ELSE SplitFrom(s, c, k + 1, Append(cur, s[k]))

\* str::split on one character
Split(s, c) == SplitFrom(s, c, 1, <<>>)

RECURSIVE DecVal(_)
DecVal(s) == IF s = <<>> THEN 0 ELSE 10 * DecVal(SubSeq(s, 1, Len(s) - 1)) + DigitVal(s[Len(s)])

AllIn(s, set) == \A k \in 1..Len(s) : s[k] \in set

(***************************************************************************)
(* Ipv4Addr, its text form and its numeric value.                          *)
(***************************************************************************)
None == [tag |-> "None"]

\* Ipv4Addr as Display: the four octets in decimal, joined by dots
Ipv4ToString(o) == DecStr(o[1]) \o <<".">> \o DecStr(o[2]) \o <<".">> \o DecStr(o[3]) \o <<".">> \o DecStr(o[4])

\* one octet of the text form: 1 to 3 digits, no leading zero, at most 255
OctetOk(p) ==
    /\ Len(p) \in 1..3
    /\ AllIn(p, DigitSet)
    /\ (Len(p) > 1 => p[1] # "0")
    /\ DecVal(p) <= 255

\* str::parse::<Ipv4Addr>: the octets, or None
ParseV4(s) ==
    LET parts == Split(s, ".")
    IN IF Len(parts) = 4 /\ \A k \in 1..4 : OctetOk(parts[k])
       THEN [tag |-> "V4", octets |-> [k \in 1..4 |-> DecVal(parts[k])]]
       ELSE None

GroupOk(g) == Len(g) \in 1..4 /\ AllIn(g, HexSet)

\* the position of the first "::" of s, or 0
DoubleColon(s) ==
    IF \E k \in 1..(Len(s) - 1) : s[k] = ":" /\ s[k + 1] = ":"
    THEN CHOOSE k \in 1..(Len(s) - 1) :
            /\ s[k] = ":" /\ s[k + 1] = ":"
            /\ \A m \in 1..(k - 1) : ~(s[m] = ":" /\ s[m + 1] = ":")
    ELSE 0

GroupsOf(s) == IF s = <<>> THEN <<>> ELSE Split(s, ":")

\* str::parse::<Ipv6Addr> on the colon-hexadecimal forms (eight groups, or
\* fewer with one "::"); the forms with an embedded dotted quad are not drawn
ParseV6Ok(s) ==
    LET dc == DoubleColon(s)
    IN IF dc = 0
       THEN LET g == GroupsOf(s) IN Len(g) = 8 /\ \A k \in 1..8 : GroupOk(g[k])
       ELSE LET l == GroupsOf(SubSeq(s, 1, dc - 1))
                r == GroupsOf(SubSeq(s, dc + 2, Len(s)))
            IN /\ Len(l) + Len(r) <= 7
               /\ \A k \in 1..Len(l) : GroupOk(l[k])
               /\ \A k \in 1..Len(r) : GroupOk(r[k])

\* fn parse_ip(s) -> Option<IpAddr>
parse_ip(s) ==
    LET v4 == ParseV4(s)
    IN IF v4 # None THEN v4
       ELSE IF ParseV6Ok(s) THEN [tag |-> "V6"]
       ELSE None

\* u32::from_be_bytes as the pair of 16-bit halves
from_be_bytes(o) == <<o[1] * 256 + o[2], o[3] * 256 + o[4]>>

\* u32::to_be_bytes
to_be_bytes(u) == <<u[1] \div 256, u[1] % 256, u[2] \div 256, u[2] % 256>>

\* fn v4_key(ip) -> u32
v4_key(o) == from_be_bytes(o)

\* u32 comparison
U32Lt(a, b) == a[1] < b[1] \/ (a[1] = b[1] /\ a[2] < b[2])
U32Le(a, b) == a = b \/ U32Lt(a, b)
U32Zero == <<0, 0>>

\* u32::wrapping_add(1)
wrapping_add1(u) ==
    IF u[2] < 65535 THEN <<u[1], u[2] + 1>>
    ELSE <<(u[1] + 1) % 65536, 0>>


\* faulty variant: an element also moves in front of the elements equal to it
KeyLessOrEq(a, b) == a = b \/ a[1] < b[1] \/ (a[1] = b[1] /\ a[2] < b[2])

\* faulty variant: the comparison is turned round (b.cmp(a))
KeyGreater(a, b) == U32Lt(b, a)

\* u32::cmp as used by sort_by: TRUE when a sorts strictly before b
KeyLess(a, b) == U32Lt(a, b)

RECURSIVE InsertSorted(_, _)
InsertSorted(sorted, r) ==
    IF sorted = <<>> THEN <<r>>
    ELSE IF KeyLess(r.sort_key, sorted[Len(sorted)].sort_key)
         THEN Append(InsertSorted(SubSeq(sorted, 1, Len(sorted) - 1), r), sorted[Len(sorted)])
         ELSE Append(sorted, r)

RECURSIVE StableSort(_)
StableSort(v) ==
    IF v = <<>> THEN <<>>
    ELSE InsertSorted(StableSort(SubSeq(v, 1, Len(v) - 1)), v[Len(v)])

\* faulty variant: the sort is left out
sort_by_key_none(v) == v

\* results.sort_by(|a, b| a.sort_key.cmp(&b.sort_key)): a stable sort
sort_by_key(v) == StableSort(v)

(***************************************************************************)
(* Texts.  A text is a sequence of fragments; address strings are cut into *)
(* single characters, fixed texts are one fragment each.                   *)
(***************************************************************************)
Str_invalid == "\\x1b[0m is \\x1b[1m\\x1b[31minvalid\\x1b[0m"
Str_ipv6 == "\\x1b[0m is \\x1b[33mIPv6 currently unsupported\\x1b[0m"
Str_up == "\\x1b[0m is \\x1b[1m\\x1b[32mup\\x1b[0m"
Str_down == "\\x1b[0m is \\x1b[1m\\x1b[31mdown\\x1b[0m"
Esc_plain == "\\x1b[0m"
Esc_bold == "\\x1b[1m"

\* fn usage(program) -> String
usage(program) ==
    <<"Usage:", "\n  ", program, " <IP1> <IP2> ...\n  ", program,
      " -r <start_ipv4> <end_ipv4>\n\nOptions: ...">>

RangeUsage == <<"Usage:", " ipchk -r <start_ipv4> <end_ipv4>">>

\* str::starts_with("Usage:"): every text of this program begins with a
\* fragment that is "Usage:" or has no "Usage:" prefix
StartsWithUsage(msg) == Len(msg) > 0 /\ msg[1] = "Usage:"

(***************************************************************************)
(* Command lines.  argv is the command line as pico-args sees it: which    *)
(* flags are present, the value text of each option (a sequence of zero or *)
(* one texts) and the free arguments in order.                             *)
(***************************************************************************)
\* <T as FromStr>::from_str for the unsigned integer options
ParseUInt(s) ==
    IF Len(s) >= 1 /\ AllIn(s, DigitSet) THEN [tag |-> "Ok", val |-> DecVal(s)]
    ELSE [tag |-> "Err"]

\* Arguments::opt_value_from_str: Ok(None), Ok(Some(v)) or Err
opt_value_from_str(opt) ==
    IF opt = <<>> THEN [tag |-> "Ok", some |-> FALSE, val |-> 0]
    ELSE LET r == ParseUInt(opt[1])
         IN IF r.tag = "Ok" THEN [tag |-> "Ok", some |-> TRUE, val |-> r.val]
            ELSE [tag |-> "Err"]

\* faulty variant: the floor is left out
MaxNone(a, b) == a

\* Ord::max
Max(a, b) == IF a >= b THEN a ELSE b

Err(msg) == [tag |-> "Err", msg |-> msg]

\* fn parse_args() -> Result<Args, String>
parse_args(av) ==
    LET t == opt_value_from_str(av.timeout)
        n == opt_value_from_str(av.count)
        c == opt_value_from_str(av.concurrency)
        timeout_ms == IF t.some THEN t.val ELSE DEFAULT_TIMEOUT_MS
        count == Max(IF n.some THEN n.val ELSE DEFAULT_COUNT, 1)
        concurrency == Max(IF c.some THEN c.val ELSE DEFAULT_CONCURRENCY, 1)
    IN IF av.help THEN Err(usage("ipchk"))
       ELSE IF t.tag = "Err" THEN Err(<<"--timeout: ", "failed to parse '">> \o av.timeout[1] \o <<"'">>)
       ELSE IF n.tag = "Err" THEN Err(<<"--count: ", "failed to parse '">> \o av.count[1] \o <<"'">>)
       ELSE IF c.tag = "Err" THEN Err(<<"--concurrency: ", "failed to parse '">> \o av.concurrency[1] \o <<"'">>)
       ELSE IF av.range
            THEN IF Len(av.free) # 2 THEN Err(RangeUsage)
                 ELSE LET start == ParseV4(av.free[1])
                          end == ParseV4(av.free[2])
                      IN IF start = None THEN Err(<<"range: start must be IPv4: ">> \o av.free[1])
                         ELSE IF end = None THEN Err(<<"range: end must be IPv4: ">> \o av.free[2])
                         ELSE [tag |-> "Ok", is_range |-> TRUE,
                               range |-> <<start.octets, end.octets>>,
                               timeout_ms |-> timeout_ms, count |-> count,
                               concurrency |-> concurrency, ips |-> <<>>]
            ELSE IF av.free = <<>> THEN Err(usage("ipchk"))
                 ELSE [tag |-> "Ok", is_range |-> FALSE,
                       range |-> <<>>,
                       timeout_ms |-> timeout_ms, count |-> count,
                       concurrency |-> concurrency, ips |-> av.free]

\* main's exit status for a parse_args error
ExitCodeFor(msg) == IF StartsWithUsage(msg) THEN 0 ELSE 2

(***************************************************************************)
(* The range iterator.                                                     *)
(***************************************************************************)
\* IpRange::new(a, b)
IpRange_new(a, b) ==
    LET lo == from_be_bytes(a)
        hi == from_be_bytes(b)
    IN IF U32Lt(hi, lo) THEN [cur |-> hi, end |-> lo] ELSE [cur |-> lo, end |-> hi]

\* faulty variant: the end is taken as exclusive (cur >= end ends the iteration)
IpRange_next_excl(r) ==
    IF U32Le(r.end, r.cur) THEN [item |-> None, iter |-> r]
    ELSE [item |-> [tag |-> "Some", octets |-> to_be_bytes(r.cur)],
          iter |-> [r EXCEPT !.cur = wrapping_add1(r.cur)]]

\* IpRange::next: the item (None when cur > end) and the iterator after it
IpRange_next(r) ==
    IF U32Lt(r.end, r.cur) THEN [item |-> None, iter |-> r]
    ELSE [item |-> [tag |-> "Some", octets |-> to_be_bytes(r.cur)],
          iter |-> [r EXCEPT !.cur = wrapping_add1(r.cur)]]


(***************************************************************************)
(* The command lines drawn.                                                *)
(***************************************************************************)
Addr_10_0_0_1 == <<10, 0, 0, 1>>
Addr_127_0_0_1 == <<127, 0, 0, 1>>
Addr_0_0_0_0 == <<0, 0, 0, 0>>
Txt_v6 == <<":", ":", "1">>
Txt_bad == <<"n", "o", "t", "-", "a", "n", "-", "i", "p">>
Txt_bad_octet == <<"1", "0", ".", "0", ".", "0", ".", "2", "5", "6">>

\* the positional address strings of list mode
TargetTexts ==
    {Ipv4ToString(Addr_127_0_0_1), Ipv4ToString(Addr_10_0_0_1), Txt_v6, Txt_bad}

\* longer lists, for the cases that take three targets
LongLists ==
    {<<Ipv4ToString(Addr_127_0_0_1), Txt_bad, Ipv4ToString(Addr_10_0_0_1)>>,
     <<Txt_bad, Ipv4ToString(Addr_0_0_0_0), Txt_v6>>,
     <<Ipv4ToString(Addr_10_0_0_1), Ipv4ToString(Addr_0_0_0_0), Ipv4ToString(Addr_10_0_0_1)>>}

TargetLists == UNION {[1..n -> TargetTexts] : n \in 1..MaxTargets} \cup LongLists

\* the endpoints of range mode, in groups of neighbouring addresses
RangeGroups ==
    {{<<10, 0, 0, 1>>, <<10, 0, 0, 2>>, <<10, 0, 0, 3>>},
     {<<0, 0, 255, 255>>, <<0, 1, 0, 0>>},
     {<<255, 255, 255, 254>>, <<255, 255, 255, 255>>}}

RangePairs == UNION {g \X g : g \in RangeGroups}

NoOpt == <<>>
ConcTexts == {DecStr(n) : n \in 1..MaxConc}

Argv(help, t, n, c, range, free) ==
    [help |-> help, timeout |-> t, count |-> n, concurrency |-> c, range |-> range, free |-> free]

\* list mode: every list with -c, the longer lists also without
ListArgvs ==
    {Argv(FALSE, NoOpt, NoOpt, <<c>>, FALSE, l) : c \in ConcTexts, l \in TargetLists}
        \cup {Argv(FALSE, NoOpt, NoOpt, NoOpt, FALSE, l) : l \in LongLists}

\* range mode, always with -c
RangeArgvs ==
    {Argv(FALSE, NoOpt, NoOpt, <<c>>, TRUE, <<Ipv4ToString(p[1]), Ipv4ToString(p[2])>>) :
        c \in ConcTexts, p \in RangePairs}

\* help, alone and with other arguments, good or bad
HelpArgvs ==
    {Argv(TRUE, NoOpt, NoOpt, NoOpt, FALSE, <<>>),
     Argv(TRUE, <<<<"x">>>>, NoOpt, NoOpt, FALSE, <<>>),
     Argv(TRUE, NoOpt, NoOpt, NoOpt, TRUE, <<Txt_bad>>)}

\* -t, -n and -c with values that parse and values that do not
OptionArgvs ==
    {Argv(FALSE, t, n, c, FALSE, <<Ipv4ToString(Addr_10_0_0_1)>>) :
        t \in {NoOpt, <<DecStr(75)>>, <<<<"7", "s">>>>, <<<<>>>>},
        n \in {NoOpt, <<DecStr(0)>>, <<<<"-", "1">>>>},
        c \in {NoOpt, <<DecStr(0)>>, <<<<"x">>>>}}

\* the positionals missing, too few, too many or malformed
PositionalArgvs ==
    {Argv(FALSE, NoOpt, NoOpt, NoOpt, r, f) :
        r \in BOOLEAN,
        f \in {<<>>, <<Ipv4ToString(Addr_10_0_0_1)>>,
               <<Ipv4ToString(Addr_10_0_0_1), Txt_bad>>,
               <<Txt_v6, Ipv4ToString(Addr_10_0_0_1)>>,
               <<Txt_bad_octet, Ipv4ToString(Addr_10_0_0_1)>>,
               <<Ipv4ToString(Addr_10_0_0_1), Ipv4ToString(Addr_10_0_0_1), Ipv4ToString(Addr_10_0_0_1)>>}}

\* -c 0 and -n 0 with more than one target, in list and in range mode
ZeroArgvs ==
    {Argv(FALSE, NoOpt, <<DecStr(0)>>, <<DecStr(0)>>, FALSE, l) : l \in LongLists}
        \cup {Argv(FALSE, NoOpt, NoOpt, <<DecStr(0)>>, TRUE,
                   <<Ipv4ToString(Addr_10_0_0_1), Ipv4ToString(<<10, 0, 0, 3>>)>>)}

ArgvSet ==
    ListArgvs \cup RangeArgvs \cup HelpArgvs \cup OptionArgvs \cup PositionalArgvs
        \cup ZeroArgvs

(***************************************************************************)
(* State.                                                                  *)
(***************************************************************************)
VARIABLES
    pc,         \* where main is
    argv,       \* the command line
    args,       \* Args, once parsed
    exit_code,  \* the process exit status, -1 while running
    stderr,     \* what eprintln! wrote
    iter,       \* range mode: the IpRange
    it,         \* list mode: how many of args.ips the iterator has handed out
    batch,      \* the wave being formed, then the targets not yet spawned
    i,          \* the counter of "for _ in 0..args.concurrency"
    threads,    \* every probe thread spawned so far, in spawn order: its target
                \* (ip), where it is (pc), and as history its wave and the
                \* status its ping ended with
    handles,    \* the JoinHandles of the wave not yet joined (thread numbers)
    chan,       \* the mpsc channel's queue
    senders,    \* how many Senders are alive
    results,    \* the Vec the receive loop fills
    output,     \* the results printed so far, one line (r.msg) each
    yielded,    \* history: every Some(ip) the IpRange has returned
    arrived     \* history: the threads that have sent, in the order of their sends

vars == <<pc, argv, args, exit_code, stderr, iter, it, batch, i, threads, handles,
          chan, senders, results, output, yielded, arrived>>

NoArgs == [tag |-> "None"]
NoIter == [cur |-> U32Zero, end |-> U32Zero]

Init ==
    /\ argv \in ArgvSet
    /\ pc = "parse_args"
    /\ args = NoArgs
    /\ exit_code = -1
    /\ stderr = <<>>
    /\ iter = NoIter
    /\ it = 0
    /\ batch = <<>>
    /\ i = 0
    /\ threads = <<>>
    /\ handles = <<>>
    /\ chan = <<>>
    /\ senders = 0
    /\ results = <<>>
    /\ output = <<>>
    /\ yielded = <<>>
    /\ arrived = <<>>

(***************************************************************************)
(* main, up to the first wave.                                             *)
(***************************************************************************)
\* faulty variant: the range is taken as inclusive (0..=c)
ForContinuesIncl(k, c) == k <= c

\* faulty variant: the range starts at one (1..c)
ForContinuesFromOne(k, c) == k + 1 < c

\* "for _ in 0..c": whether the loop has another turn after k turns
ForContinues(k, c) == k < c

\* where main goes when the inner for loop ends with this batch
AfterFill(b) == IF b = <<>> THEN "drop_tx" ELSE "spawn"

\* where main is at the top of a turn of its loop: the for loop over
\* 0..concurrency runs at least once unless the bound is 0
LoopTop(c) == IF ForContinues(0, c) THEN "fill" ELSE AfterFill(<<>>)

\* parse_args fails: eprintln!, process::exit
MainArgsErr ==
    /\ pc = "parse_args"
    /\ LET r == parse_args(argv)
       IN /\ r.tag = "Err"
          /\ stderr' = r.msg
          /\ exit_code' = ExitCodeFor(r.msg)
    /\ pc' = "exited"
    /\ UNCHANGED <<argv, args, iter, it, batch, i, threads, handles, chan, senders,
                   results, output, yielded, arrived>>

\* parse_args succeeds: the channel is created, the iterator is built
MainArgsOk ==
    /\ pc = "parse_args"
    /\ LET r == parse_args(argv)
       IN /\ r.tag = "Ok"
          /\ args' = r
          /\ iter' = IF r.is_range THEN IpRange_new(r.range[1], r.range[2]) ELSE NoIter
    /\ senders' = 1
    /\ batch' = <<>>
    /\ i' = 0
    /\ pc' = LoopTop(parse_args(argv).concurrency)
    /\ UNCHANGED <<argv, exit_code, stderr, it, threads, handles, chan, results, output, yielded, arrived>>

\* how many targets the enumerator has handed out
Taken == Len(threads) + Len(batch)

\* range mode: one turn of "for _ in 0..args.concurrency" that gets Some(ip)
RangeFillSome ==
    /\ pc = "fill"
    /\ args.is_range
    /\ ForContinues(i, args.concurrency)
    /\ Taken < MaxTaken
    /\ LET n == IpRange_next(iter)
       IN /\ n.item # None
          /\ iter' = n.iter
          /\ batch' = Append(batch, Ipv4ToString(n.item.octets))
          /\ yielded' = Append(yielded, n.item.octets)
    /\ i' = i + 1
    /\ pc' = IF ForContinues(i', args.concurrency) THEN "fill" ELSE "spawn"
    /\ UNCHANGED <<argv, args, exit_code, stderr, it, threads, handles, chan, senders,
                   results, output, arrived>>

\* range mode: the turn that gets None and breaks
RangeFillNone ==
    /\ pc = "fill"
    /\ args.is_range
    /\ ForContinues(i, args.concurrency)
    /\ LET n == IpRange_next(iter)
       IN /\ n.item = None
          /\ iter' = n.iter
    /\ pc' = AfterFill(batch)
    /\ UNCHANGED <<argv, args, exit_code, stderr, it, batch, i, threads, handles, chan,
                   senders, results, output, yielded, arrived>>

\* list mode: one turn that gets Some(ip) from args.ips.into_iter()
ListFillSome ==
    /\ pc = "fill"
    /\ ~args.is_range
    /\ ForContinues(i, args.concurrency)
    /\ it < Len(args.ips)
    /\ it' = it + 1
    /\ batch' = Append(batch, args.ips[it + 1])
    /\ i' = i + 1
    /\ pc' = IF ForContinues(i', args.concurrency) THEN "fill" ELSE "spawn"
    /\ UNCHANGED <<argv, args, exit_code, stderr, iter, threads, handles, chan, senders,
                   results, output, yielded, arrived>>

\* list mode: the turn that gets None and breaks
ListFillNone ==
    /\ pc = "fill"
    /\ ~args.is_range
    /\ ForContinues(i, args.concurrency)
    /\ it = Len(args.ips)
    /\ pc' = AfterFill(batch)
    /\ UNCHANGED <<argv, args, exit_code, stderr, iter, it, batch, i, threads, handles,
                   chan, senders, results, output, yielded, arrived>>


\* the wave (1, 2, ...) the next spawned thread belongs to
NextWave ==
    IF threads = <<>> THEN 1
    ELSE IF handles = <<>> THEN threads[Len(threads)].wave + 1
    ELSE threads[Len(threads)].wave

(***************************************************************************)
(* spawn_batch.                                                            *)
(***************************************************************************)
\* faulty variant: join does not wait
FinishedNoWait(t) == TRUE

\* faulty variant: join gets past a thread only when it returned normally
FinishedOkOnly(t) == threads[t].pc = "done"

\* faulty variant: join gives up on a thread whose ping is still running
FinishedOrTimedOut(t) == threads[t].pc \in {"done", "panicked", "probing"}

\* JoinHandle::join returns once the thread has ended
Finished(t) == threads[t].pc \in {"done", "panicked"}

\* one turn of "for ip in batch": tx.clone(), thread::spawn
SpawnOne ==
    /\ pc = "spawn"
    /\ batch # <<>>
    /\ threads' = Append(threads, [ip |-> Head(batch), wave |-> NextWave, pc |-> "start",
                                   status |-> None])
    /\ handles' = Append(handles, Len(threads) + 1)
    /\ senders' = senders + 1
    /\ batch' = Tail(batch)
    /\ pc' = IF batch' = <<>> THEN "join" ELSE "spawn"
    /\ UNCHANGED <<argv, args, exit_code, stderr, iter, it, i, chan, results, output, yielded, arrived>>

\* one turn of "for h in handles": h.join() returns once the thread has
\* ended, its Ok or Err is discarded; after the last one the closure
\* returns and main's loop starts its next turn with a new batch
JoinOne ==
    /\ pc = "join"
    /\ handles # <<>>
    /\ Finished(Head(handles))
    /\ handles' = Tail(handles)
    /\ IF handles' = <<>>
       THEN pc' = LoopTop(args.concurrency) /\ i' = 0
       ELSE pc' = "join" /\ i' = i
    /\ UNCHANGED <<argv, args, exit_code, stderr, iter, it, batch, threads, chan, senders,
                   results, output, yielded, arrived>>

(***************************************************************************)
(* ping_one, run by each probe thread.  A PingResult carries, beside msg   *)
(* and sort_key, the number of the thread that sent it (src): a history    *)
(* field that tells two equal results apart.                               *)
(***************************************************************************)
PingResult(msg, key, t) == [msg |-> msg, sort_key |-> key, src |-> t]

MsgInvalid(ip_str) == <<Esc_plain>> \o ip_str \o <<Str_invalid>>
MsgV6(ip_str) == <<Esc_plain>> \o ip_str \o <<Str_ipv6>>
MsgUp(ip_str) == <<Esc_bold>> \o ip_str \o <<Str_up>>
MsgDown(ip_str) == <<Esc_plain>> \o ip_str \o <<Str_down>>

\* the outcomes of Command::status()
PingStatuses ==
    {[tag |-> "Err"], [tag |-> "Ok", success |-> TRUE], [tag |-> "Ok", success |-> FALSE]}

\* faulty variant: the exit status of ping is not looked at
ping_unix_cmd_launched(status) == status.tag = "Ok"

\* fn ping_unix_cmd: matches!(status.map(|s| s.success()), Ok(true))
ping_unix_cmd(status) == status.tag = "Ok" /\ status.success

\* let msg = if up { ...up } else { ...down }
MsgV4(ip_str, up) == IF up THEN MsgUp(ip_str) ELSE MsgDown(ip_str)

\* faulty variant: the addresses that are not IPv4 are keyed to sort last
KeyNotV4Last == <<65535, 65535>>

\* the sort key ping_one sends for an address that is not IPv4
KeyNotV4 == U32Zero

\* faulty variant: ping_one returns without sending
ReturnUnsent(t, r) ==
    /\ chan' = chan
    /\ arrived' = arrived
    /\ senders' = senders - 1
    /\ threads' = [threads EXCEPT ![t].pc = "done"]

\* tx.send(r), then ping_one returns and its Sender is dropped
SendAndReturn(t, r) ==
    /\ chan' = Append(chan, r)
    /\ arrived' = Append(arrived, t)
    /\ senders' = senders - 1
    /\ threads' = [threads EXCEPT ![t].pc = "done"]

\* ping_one up to the call of the prober: parse_ip, the two early returns
TaskClassify(t) ==
    /\ threads[t].pc = "start"
    /\ LET ip_str == threads[t].ip
           parsed == parse_ip(ip_str)
       IN IF parsed = None
          THEN SendAndReturn(t, PingResult(MsgInvalid(ip_str), KeyNotV4, t))
          ELSE IF parsed.tag = "V6"
          THEN SendAndReturn(t, PingResult(MsgV6(ip_str), KeyNotV4, t))
          ELSE /\ threads' = [threads EXCEPT ![t].pc = "probing"]
               /\ UNCHANGED <<chan, senders, arrived>>
    /\ UNCHANGED <<pc, argv, args, exit_code, stderr, iter, it, batch, i, handles,
                   results, output, yielded>>

\* the ping process ends, or could not be started
TaskPingReturn(t) ==
    /\ threads[t].pc = "probing"
    /\ \E st \in PingStatuses :
          threads' = [threads EXCEPT ![t].pc = "returned", ![t].status = st]
    /\ UNCHANGED <<pc, argv, args, exit_code, stderr, iter, it, batch, i, handles,
                   chan, senders, results, output, yielded, arrived>>

\* the rest of ping_one: the message, the send, the return
TaskSend(t) ==
    /\ threads[t].pc = "returned"
    /\ LET ip_str == threads[t].ip
           v4 == parse_ip(ip_str).octets
           up == ping_unix_cmd(threads[t].status)
       IN SendAndReturn(t, PingResult(MsgV4(ip_str, up), v4_key(v4), t))
    /\ UNCHANGED <<pc, argv, args, exit_code, stderr, iter, it, batch, i, handles,
                   results, output, yielded>>

Panicked == {t \in 1..Len(threads) : threads[t].pc = "panicked"}

\* the thread panics before it has sent: unwinding drops its Sender
TaskPanic(t) ==
    /\ threads[t].pc \in {"start", "probing", "returned"}
    /\ Cardinality(Panicked) < MaxPanics
    /\ threads' = [threads EXCEPT ![t].pc = "panicked"]
    /\ senders' = senders - 1
    /\ UNCHANGED <<pc, argv, args, exit_code, stderr, iter, it, batch, i, handles,
                   chan, results, output, yielded, arrived>>

(***************************************************************************)
(* main, after the last wave.                                              *)
(***************************************************************************)
\* faulty variant: main keeps its Sender while it receives
DropTxForgotten ==
    /\ pc = "drop_tx"
    /\ pc' = "recv"
    /\ UNCHANGED <<argv, args, exit_code, stderr, iter, it, batch, i, threads, handles,
                   chan, senders, results, output, yielded, arrived>>

\* drop(tx)
DropTx ==
    /\ pc = "drop_tx"
    /\ senders' = senders - 1
    /\ pc' = "recv"
    /\ UNCHANGED <<argv, args, exit_code, stderr, iter, it, batch, i, threads, handles,
                   chan, results, output, yielded, arrived>>

\* faulty variant: the newest queued outcome is received first
RecvOneNewest ==
    /\ pc = "recv"
    /\ chan # <<>>
    /\ results' = Append(results, chan[Len(chan)])
    /\ chan' = SubSeq(chan, 1, Len(chan) - 1)
    /\ UNCHANGED <<pc, argv, args, exit_code, stderr, iter, it, batch, i, threads, handles,
                   senders, output, yielded, arrived>>

\* one turn of "for r in rx"
RecvOne ==
    /\ pc = "recv"
    /\ chan # <<>>
    /\ results' = Append(results, Head(chan))
    /\ chan' = Tail(chan)
    /\ UNCHANGED <<pc, argv, args, exit_code, stderr, iter, it, batch, i, threads, handles,
                   senders, output, yielded, arrived>>

\* rx reports disconnection (queue empty, no Sender left): the loop ends
\* and the results are sorted
RecvEndSort ==
    /\ pc = "recv"
    /\ chan = <<>>
    /\ senders = 0
    /\ results' = sort_by_key(results)
    /\ pc' = "print"
    /\ UNCHANGED <<argv, args, exit_code, stderr, iter, it, batch, i, threads, handles,
                   chan, senders, output, yielded, arrived>>

\* one turn of "for r in results": println!
PrintOne ==
    /\ pc = "print"
    /\ results # <<>>
    /\ output' = Append(output, Head(results))
    /\ results' = Tail(results)
    /\ UNCHANGED <<pc, argv, args, exit_code, stderr, iter, it, batch, i, threads, handles,
                   chan, senders, yielded, arrived>>

\* main returns
MainReturn ==
    /\ pc = "print"
    /\ results = <<>>
    /\ exit_code' = 0
    /\ pc' = "exited"
    /\ UNCHANGED <<argv, args, stderr, iter, it, batch, i, threads, handles, chan, senders,
                   results, output, yielded, arrived>>

Classify == \E t \in 1..Len(threads) : TaskClassify(t)
PingReturn == \E t \in 1..Len(threads) : TaskPingReturn(t)
Send == \E t \in 1..Len(threads) : TaskSend(t)
Panic == \E t \in 1..Len(threads) : TaskPanic(t)

Next ==
    \/ MainArgsErr
    \/ MainArgsOk
    \/ RangeFillSome
    \/ RangeFillNone
    \/ ListFillSome
    \/ ListFillNone
    \/ SpawnOne
    \/ JoinOne
    \/ Classify
    \/ PingReturn
    \/ Send
    \/ Panic
    \/ DropTx
    \/ RecvOne
    \/ RecvEndSort
    \/ PrintOne
    \/ MainReturn

Spec == Init /\ [][Next]_vars


\* the steps of the main thread
Main ==
    \/ MainArgsErr \/ MainArgsOk
    \/ RangeFillSome \/ RangeFillNone \/ ListFillSome \/ ListFillNone
    \/ SpawnOne \/ JoinOne
    \/ DropTx \/ RecvOne \/ RecvEndSort \/ PrintOne \/ MainReturn

\* the runs in which main and every spawned thread keep being scheduled
\* and every ping that was started ends; a panic is never required
FairSpec ==
    /\ Spec
    /\ WF_vars(Main)
    /\ WF_vars(Classify \/ PingReturn \/ Send)

(***************************************************************************)
(* Vocabulary of the properties.                                           *)
(***************************************************************************)
Threads == 1..Len(threads)

\* the thread has ended, by returning or by panicking
Ended(t) == threads[t].pc = "done" \/ threads[t].pc = "panicked"

\* the thread has published its outcome
Published(t) == threads[t].pc = "done"

\* a run that got past its arguments
Sweeping == args # NoArgs

\* the run is over and the report is printed
Reported == pc = "exited" /\ Sweeping

\* the address text inside a printed line
LineIp(r) == SubSeq(r.msg, 2, Len(r.msg) - 1)

\* the target texts of the drawn command lines, each parsed once; any
\* other text is parsed where it is met
KnownTexts ==
    TargetTexts \cup UNION {{l[n] : n \in DOMAIN l} : l \in LongLists}
        \cup {Ipv4ToString(a) : a \in UNION RangeGroups}
ParsedV4 == [s \in KnownTexts |-> ParseV4(s)]
ParsedV6Ok == [s \in KnownTexts |-> ParseV6Ok(s)]
ParseV4Of(s) == IF s \in KnownTexts THEN ParsedV4[s] ELSE ParseV4(s)
ParseV6OkOf(s) == IF s \in KnownTexts THEN ParsedV6Ok[s] ELSE ParseV6Ok(s)

\* the target of thread t as an IPv4 address, if it is one
IsV4Target(t) == ParseV4Of(threads[t].ip) # None
OctetsOf(t) == ParseV4Of(threads[t].ip).octets

\* numeric order of two addresses, octet by octet from the most significant
OctLess(a, b) ==
    \E k \in 1..4 : a[k] < b[k] /\ \A m \in 1..(k - 1) : a[m] = b[m]

\* the numeric value of an address as 16-bit halves
NumOf(o) == <<256 * o[1] + o[2], 256 * o[3] + o[4]>>

\* the lines of thread t in the output
LinesOf(t) == {j \in DOMAIN output : output[j].src = t}

\* thread t's line is printed before thread u's
PrintedBefore(t, u) ==
    \E j, k \in DOMAIN output : j < k /\ output[j].src = t /\ output[k].src = u

(***************************************************************************)
(* C1.  IPv4 targets are printed in ascending numeric order of their       *)
(* addresses, whichever probe finishes first: at no time is a line of a    *)
(* numerically greater address above a line of a smaller one, and in the   *)
(* finished report the line of every published smaller address precedes    *)
(* the line of every published greater one.                                *)
(***************************************************************************)
C1_AscendingAddressOrder ==
    /\ \A j, k \in DOMAIN output :
          LET a == ParseV4(LineIp(output[j]))
              b == ParseV4(LineIp(output[k]))
          IN (a # None /\ b # None /\ OctLess(a.octets, b.octets)) => j < k
    /\ Reported =>
          \A t, u \in Threads :
             (/\ Published(t) /\ Published(u)
              /\ IsV4Target(t) /\ IsV4Target(u)
              /\ OctLess(OctetsOf(t), OctetsOf(u))) => PrintedBefore(t, u)

\* 127.0.0.1 was enumerated first and answered first, 10.0.0.1 is printed first
C1_Witness ==
    /\ Reported
    /\ ~args.is_range
    /\ args.ips = <<Ipv4ToString(Addr_127_0_0_1), Ipv4ToString(Addr_10_0_0_1)>>
    /\ args.concurrency = 2
    /\ arrived = <<1, 2>>
    /\ Len(output) = 2
    /\ output[1].msg = MsgDown(Ipv4ToString(Addr_10_0_0_1))
    /\ output[2].msg = MsgUp(Ipv4ToString(Addr_127_0_0_1))

(***************************************************************************)
(* C2.  When no probe task has crashed, the finished report has one line   *)
(* per enumerated target: as many lines as positional arguments (list      *)
(* mode) or addresses in the range (range mode), and exactly one line of   *)
(* each probe thread.                                                      *)
(***************************************************************************)
\* the number of addresses from a to b inclusive, a <= b numerically and near
SpanLen(a, b) == (NumOf(b)[1] - NumOf(a)[1]) * 65536 + (NumOf(b)[2] - NumOf(a)[2]) + 1

TargetCount ==
    IF argv.range
    THEN LET a == ParseV4(argv.free[1]).octets
             b == ParseV4(argv.free[2]).octets
         IN IF OctLess(b, a) THEN SpanLen(b, a) ELSE SpanLen(a, b)
    ELSE Len(argv.free)

C2_OneLinePerTarget ==
    (Reported /\ Panicked = {}) =>
        /\ Len(output) = TargetCount
        /\ Len(threads) = TargetCount
        /\ \A t \in Threads : Cardinality(LinesOf(t)) = 1

\* three targets, two of them the same address, in two waves
C2_Witness ==
    /\ Reported
    /\ Panicked = {}
    /\ args.concurrency = 2
    /\ args.ips = <<Ipv4ToString(Addr_10_0_0_1), Ipv4ToString(Addr_0_0_0_0), Ipv4ToString(Addr_10_0_0_1)>>
    /\ Len(output) = 3

(***************************************************************************)
(* C3.  At any instant of a sweep at most `concurrency` probe threads have *)
(* been spawned and not yet joined, hence at most that many are running.   *)
(***************************************************************************)
Running == {t \in Threads : ~Ended(t)}

C3_BoundedConcurrency ==
    Sweeping =>
        /\ Len(handles) <= args.concurrency
        /\ Cardinality(Running) <= args.concurrency

\* a full wave in flight while targets remain
C3_Witness ==
    /\ Sweeping
    /\ args.concurrency = 2
    /\ Cardinality(Running) = 2
    /\ ~args.is_range
    /\ it < Len(args.ips)

(***************************************************************************)
(* C4.  Wave barrier: while a probe thread has not ended (returned or      *)
(* panicked), main is spawning or joining that thread's wave: no thread of *)
(* a later wave exists and no target is being taken from the enumerator.   *)
(***************************************************************************)
C4_WaveBarrier ==
    \A t \in Threads :
        ~Ended(t) =>
            /\ pc \in {"spawn", "join"}
            /\ \A u \in Threads : threads[u].wave <= threads[t].wave
            /\ (args.is_range => Len(yielded) = Len(threads) + Len(batch))
            /\ (~args.is_range => it = Len(threads) + Len(batch))

\* the second wave has started after a crash in the first
C4_Witness ==
    \E t, u \in Threads :
        /\ threads[t].wave = 1 /\ threads[t].pc = "panicked"
        /\ threads[u].wave = 2 /\ threads[u].pc = "start"


(***************************************************************************)
(* C5.  The range iterator yields start, start+1, ..., end, each once and  *)
(* ascending (end - start + 1 addresses), and once it has yielded them it  *)
(* reports exhaustion, also when end is 255.255.255.255.                   *)
(***************************************************************************)
\* the endpoints of the command line, smaller first
RangeLo ==
    LET a == ParseV4(argv.free[1]).octets
        b == ParseV4(argv.free[2]).octets
    IN IF OctLess(b, a) THEN b ELSE a

RangeHi ==
    LET a == ParseV4(argv.free[1]).octets
        b == ParseV4(argv.free[2]).octets
    IN IF OctLess(b, a) THEN a ELSE b

\* n + k as halves, without reduction modulo 2^32
PlusExact(n, k) == <<n[1] + ((n[2] + k) \div 65536), (n[2] + k) % 65536>>

YieldsTheSpan ==
    /\ Len(yielded) <= SpanLen(RangeLo, RangeHi)
    /\ \A k \in DOMAIN yielded : NumOf(yielded[k]) = PlusExact(NumOf(RangeLo), k - 1)
    /\ (Len(yielded) = SpanLen(RangeLo, RangeHi) => IpRange_next(iter).item = None)

C5_RangeYieldsTheSpan ==
    (Sweeping /\ args.is_range) => YieldsTheSpan

\* what does hold: the same for every range that ends below 255.255.255.255
C5_BelowMaxYieldsTheSpan ==
    (Sweeping /\ args.is_range /\ RangeHi # <<255, 255, 255, 255>>) => YieldsTheSpan

(***************************************************************************)
(* C6.  Swapping the endpoints of a range changes nothing: the addresses   *)
(* enumerated are those the iterator built from the swapped endpoints      *)
(* enumerates, and they ascend from the smaller endpoint to the greater.   *)
(***************************************************************************)
RECURSIVE RangeSeq(_, _)
\* the first n items of the iterator r
RangeSeq(r, n) ==
    IF n = 0 THEN <<>>
    ELSE LET x == IpRange_next(r)
         IN IF x.item = None THEN <<>> ELSE <<x.item.octets>> \o RangeSeq(x.iter, n - 1)

SwappedIter == IpRange_new(ParseV4(argv.free[2]).octets, ParseV4(argv.free[1]).octets)

SwapCommutes == yielded = RangeSeq(SwappedIter, Len(yielded))

AscendsLoToHi ==
    /\ (yielded # <<>> => yielded[1] = RangeLo)
    /\ \A k \in DOMAIN yielded : yielded[k] = RangeHi \/ OctLess(yielded[k], RangeHi)
    /\ \A k \in 1..(Len(yielded) - 1) : OctLess(yielded[k], yielded[k + 1])

C6_SwapCommutesAscending ==
    (Sweeping /\ args.is_range) => (SwapCommutes /\ AscendsLoToHi)

\* what does hold: the two enumerations are the same
C6_SwapCommutesOnly ==
    (Sweeping /\ args.is_range) => SwapCommutes

(***************************************************************************)
(* C7.  The exit code is 0 on help and on successful completion and 2 on   *)
(* every argument error: no positional in list mode, other than two        *)
(* positionals or a malformed IPv4 endpoint in range mode, a malformed     *)
(* value of -t, -n or -c.                                                  *)
(***************************************************************************)
BadNumber(opt) == opt # <<>> /\ ~(Len(opt[1]) >= 1 /\ AllIn(opt[1], DigitSet))

ArgumentError ==
    /\ ~argv.help
    /\ \/ BadNumber(argv.timeout)
       \/ BadNumber(argv.count)
       \/ BadNumber(argv.concurrency)
       \/ argv.range /\ Len(argv.free) # 2
       \/ argv.range /\ Len(argv.free) = 2 /\ \E k \in 1..2 : ParseV4(argv.free[k]) = None
       \/ ~argv.range /\ argv.free = <<>>

C7_ExitCodes ==
    pc = "exited" => exit_code = (IF ArgumentError THEN 2 ELSE 0)

\* what does hold: 0 on help and success, 2 on a malformed number or endpoint
C7_ExitCodesButPositionalCount ==
    pc = "exited" =>
        IF ArgumentError /\ ~(argv.range /\ Len(argv.free) # 2) /\ ~(~argv.range /\ argv.free = <<>>)
        THEN exit_code = 2
        ELSE exit_code = 0

(***************************************************************************)
(* C8.  A target that is no IP address is reported invalid with sort key   *)
(* 0, an IPv6 target is reported unsupported with sort key 0; the prober   *)
(* is never invoked for either, and every other target of the run still    *)
(* gets its line.                                                          *)
(***************************************************************************)
InvalidTexts == {Txt_bad, Txt_bad_octet}
V6Texts == {Txt_v6}

\* every PingResult there is: queued, received or printed
AllResults ==
    {chan[k] : k \in DOMAIN chan} \cup {results[k] : k \in DOMAIN results}
        \cup {output[k] : k \in DOMAIN output}

ResultsOf(t) == {r \in AllResults : r.src = t}

C8_UnprobedKeyZero ==
    /\ \A t \in Threads :
          threads[t].ip \in (InvalidTexts \cup V6Texts) =>
             /\ threads[t].pc \in {"start", "done", "panicked"}
             /\ threads[t].status = None
             /\ \A r \in ResultsOf(t) :
                   /\ r.sort_key = <<0, 0>>
                   /\ r.msg = <<Esc_plain>> \o threads[t].ip \o
                                 <<IF threads[t].ip \in V6Texts THEN Str_ipv6 ELSE Str_invalid>>
    /\ Reported => \A u \in Threads : Published(u) => Cardinality(LinesOf(u)) = 1

\* an invalid target and an IPv6 target around an IPv4 target that is up
C8_Witness ==
    /\ Reported
    /\ args.ips = <<Txt_bad, Ipv4ToString(Addr_0_0_0_0), Txt_v6>>
    /\ Len(output) = 3
    /\ \E j \in 1..3 : output[j].msg = MsgUp(Ipv4ToString(Addr_0_0_0_0))
    /\ \E j \in 1..3 : output[j].msg = MsgInvalid(Txt_bad) /\ output[j].sort_key = <<0, 0>>
    /\ \E j \in 1..3 : output[j].msg = MsgV6(Txt_v6) /\ output[j].sort_key = <<0, 0>>

(***************************************************************************)
(* C9.  As claimed: outcomes with equal sort keys are printed in the order *)
(* of their enumeration.                                                   *)
(***************************************************************************)
C9_TiesInEnumerationOrder ==
    \A j, k \in DOMAIN output :
        (j < k /\ output[j].sort_key = output[k].sort_key) => output[j].src < output[k].src

(***************************************************************************)
(* C9, amended.  Outcomes with equal sort keys are printed in the order in *)
(* which they arrived at the collector (the order of the sends), which is  *)
(* the order of enumeration when the two targets are in different waves.   *)
(***************************************************************************)
ArrivalPos(t) == CHOOSE n \in DOMAIN arrived : arrived[n] = t

C9_TiesInArrivalOrder ==
    \A j, k \in DOMAIN output :
        (j < k /\ output[j].sort_key = output[k].sort_key) =>
            /\ ArrivalPos(output[j].src) < ArrivalPos(output[k].src)
            /\ (threads[output[j].src].wave # threads[output[k].src].wave
                   => output[j].src < output[k].src)

\* two outcomes keyed 0, printed against the order of enumeration
C9_Witness ==
    /\ Reported
    /\ Len(output) = 2
    /\ output[1].sort_key = output[2].sort_key
    /\ output[1].src = 2
    /\ output[2].src = 1
    /\ arrived = <<2, 1>>

(***************************************************************************)
(* C10.  An IPv4 target is reported up exactly when ping was started and   *)
(* exited with success, and down otherwise (ping could not be started, or  *)
(* exited with failure); its sort key is the numeric value of the address; *)
(* a failed ping neither ends the run nor loses the outcome.               *)
(***************************************************************************)
PingSucceeded(t) == threads[t].status = [tag |-> "Ok", success |-> TRUE]

C10_UpIffPingSucceeded ==
    /\ \A t \in Threads :
          IsV4Target(t) =>
             /\ \A r \in ResultsOf(t) :
                   /\ threads[t].status \in PingStatuses
                   /\ r.sort_key = NumOf(OctetsOf(t))
                   /\ r.msg = (IF PingSucceeded(t) THEN MsgUp(threads[t].ip)
                                                   ELSE MsgDown(threads[t].ip))
    /\ Reported =>
          /\ exit_code = 0
          /\ \A t \in Threads :
                (IsV4Target(t) /\ threads[t].pc # "panicked") => Cardinality(LinesOf(t)) = 1

\* one run with a ping that could not start, one that failed, one that succeeded
C10_Witness ==
    /\ Reported
    /\ Len(output) = 3
    /\ \E t, u, w \in Threads :
          /\ threads[t].status = [tag |-> "Err"]
          /\ threads[u].status = [tag |-> "Ok", success |-> FALSE]
          /\ PingSucceeded(w)
          /\ \E j \in 1..3 : output[j].src = t /\ output[j].msg = MsgDown(threads[t].ip)
          /\ \E j \in 1..3 : output[j].src = u /\ output[j].msg = MsgDown(threads[u].ip)
          /\ \E j \in 1..3 : output[j].src = w /\ output[j].msg = MsgUp(threads[w].ip)

(***************************************************************************)
(* C11.  A probe task that runs to completion sends exactly one outcome,   *)
(* on each of the four paths of ping_one.                                  *)
(***************************************************************************)
\* how many times thread t has sent
SendCount(t) == Cardinality({n \in DOMAIN arrived : arrived[n] = t})

\* how many outcomes of thread t are in the channel, collected or printed
Copies(q, t) == Cardinality({n \in DOMAIN q : q[n].src = t})
OutcomeCount(t) == Copies(chan, t) + Copies(results, t) + Copies(output, t)

\* the path ping_one takes for a target text
PathOf(ip_str) ==
    IF ParseV4Of(ip_str) # None THEN "v4"
    ELSE IF ParseV6OkOf(ip_str) THEN "v6"
    ELSE "invalid"

\* C11: a thread that returned from ping_one has sent exactly once and its
\* one outcome exists exactly once, with the message of the path its target
\* takes (invalid, IPv6, IPv4 up, IPv4 down); a thread that has not
\* returned has sent nothing; nobody sends twice
C11_ExactlyOneOutcome ==
    \A t \in Threads :
       /\ SendCount(t) <= 1
       /\ SendCount(t) = OutcomeCount(t)
       /\ Published(t) <=> SendCount(t) = 1
       /\ \A r \in ResultsOf(t) :
             LET ip_str == threads[t].ip
             IN CASE PathOf(ip_str) = "invalid" -> r.msg = MsgInvalid(ip_str)
                  [] PathOf(ip_str) = "v6" -> r.msg = MsgV6(ip_str)
                  [] OTHER -> r.msg \in {MsgUp(ip_str), MsgDown(ip_str)}

\* a run whose three tasks took three different paths has been reported,
\* one line each
C11_Witness ==
    /\ Reported
    /\ Len(threads) = 3
    /\ \A t \in Threads : Published(t) /\ OutcomeCount(t) = 1
    /\ \E t, u, w \in Threads :
          /\ PathOf(threads[t].ip) = "invalid"
          /\ PathOf(threads[u].ip) = "v6"
          /\ \E j \in DOMAIN output :
                output[j].src = w /\ output[j].msg = MsgDown(threads[w].ip)

(***************************************************************************)
(* C12.  A probe task that panics before it sends: the join error is       *)
(* discarded, the run goes on and reports the other tasks.                 *)
(***************************************************************************)
\* the printed lines are in sorted order: no line has a smaller key than a
\* line printed before it
OutputSorted ==
    \A j, k \in DOMAIN output :
       j < k => ~U32Lt(output[k].sort_key, output[j].sort_key)

\* C12: a panicked thread has sent nothing and nothing of it is ever in
\* the channel, the results or the output; the join of a panicked thread
\* returns like that of any ended thread, so its wave completes; the
\* receive loop ends once the queue is empty although the thread never
\* sent; and at the end of the run every target was launched, the report
\* is sorted and has exactly one line per thread that did not panic
C12_PanicIsAbsorbed ==
    /\ \A t \in Panicked : SendCount(t) = 0 /\ OutcomeCount(t) = 0
    /\ (pc = "join" /\ handles # <<>> /\ Ended(Head(handles))) => ENABLED JoinOne
    /\ (pc = "recv" /\ chan = <<>>) => ENABLED RecvEndSort
    /\ Reported =>
          /\ Len(threads) = TargetCount
          /\ OutputSorted
          /\ Len(output) = Len(threads) - Cardinality(Panicked)
          /\ \A t \in Threads :
                Cardinality(LinesOf(t)) = IF t \in Panicked THEN 0 ELSE 1

\* a task of the first wave panicked, a second wave ran after it, and the
\* report has the lines of the two other targets
C12_Witness ==
    /\ Reported
    /\ Len(threads) = 3
    /\ \E t \in Panicked : threads[t].wave = 1
    /\ \E u \in Threads : threads[u].wave = 2 /\ LinesOf(u) # {}
    /\ Len(output) = 2

(***************************************************************************)
(* C13.  The receive loop ends only when every Sender is dropped, and has  *)
(* then received every outcome that was sent.                              *)
(***************************************************************************)
\* the Senders alive: main's original until drop(tx), and the clone of
\* every thread that has not ended
LiveSenders ==
    (IF pc \in {"recv", "print", "exited"} THEN 0 ELSE 1)
    + Cardinality({t \in Threads : ~Ended(t)})

\* the threads whose outcome the collector has taken off the channel
Received == {results[n].src : n \in DOMAIN results} \cup {output[n].src : n \in DOMAIN output}

\* C13: the Senders alive are main's original and one clone per running
\* thread; while main receives, every thread has ended and a step of the
\* loop is possible (an outcome is queued, or no Sender is left and the
\* loop ends); once the loop has ended no Sender is left, the channel is
\* empty and every outcome that was sent has been received, once
C13_ReceiveLoopDrains ==
    Sweeping =>
       /\ senders = LiveSenders
       /\ pc = "recv" =>
             /\ \A t \in Threads : Ended(t)
             /\ ENABLED RecvOne \/ ENABLED RecvEndSort
             /\ Len(chan) + Len(results) = Len(arrived)
       /\ pc \in {"print", "exited"} =>
             /\ senders = 0
             /\ chan = <<>>
             /\ Received = {arrived[n] : n \in DOMAIN arrived}
             /\ Received = {t \in Threads : Published(t)}
             /\ Len(results) + Len(output) = Len(arrived)

\* the loop has just ended: three outcomes of two waves were sent and all
\* three are collected, nothing printed yet
C13_Witness ==
    /\ pc = "print"
    /\ output = <<>>
    /\ Len(arrived) = 3
    /\ Len(results) = 3
    /\ \E t \in Threads : threads[t].wave = 2
    /\ senders = 0

(***************************************************************************)
(* C14.  Every run over a finite list or an inclusive range ends: the      *)
(* enumerator is exhausted, the last wave completes, the report is         *)
(* printed.                                                                *)
(***************************************************************************)
\* the range of the command line ends at 255.255.255.255
RangeEndsAtMax == Sweeping /\ args.is_range /\ RangeHi = <<255, 255, 255, 255>>

\* C14: the enumeration is finite: main never takes more targets from the
\* enumerator than the list or the range holds, so the scheduling loop
\* has at most that many turns before the enumerator is exhausted
C14_EnumerationEnds == Sweeping => Taken <= TargetCount

\* with every started ping ending and every thread scheduled, each run
\* whose range does not end at 255.255.255.255 is reported
C14_EndsBelowMax == (Sweeping /\ ~RangeEndsAtMax) ~> Reported

\* C14 as a property of the fair runs: every run that got past its
\* arguments is reported
C14_EveryRunEnds == Sweeping ~> Reported

(***************************************************************************)
(* C15.  No deadline, no cancellation: while a probe has not returned, no  *)
(* later wave starts and nothing is printed.                               *)
(***************************************************************************)
\* the probe of thread t is running
Probing(t) == threads[t].pc = "probing"

\* C15: as long as the probe of some thread has not returned, main is
\* spawning or joining that thread's wave (it has not dropped its Sender, received,
\* sorted or printed), no thread of a later wave exists, and the outcomes
\* of the targets that did complete sit in the channel, unprinted; a
\* printed line implies that every wave has completed and the enumerator
\* is exhausted
C15_HungProbeHoldsEverything ==
    /\ \A t \in Threads :
          Probing(t) =>
             /\ pc \in {"spawn", "join"}
             /\ \A u \in Threads : threads[u].wave <= threads[t].wave
             /\ results = <<>> /\ output = <<>>
             /\ Len(chan) = Len(arrived)
    /\ output # <<>> =>
          /\ \A t \in Threads : Ended(t)
          /\ batch = <<>> /\ handles = <<>>
          /\ Len(threads) = TargetCount

\* the probe of the first target is still running while the second target
\* of the same wave has completed and a third target waits: main is at
\* the join, nothing is printed
C15_Witness ==
    /\ Len(threads) = 2
    /\ Probing(1)
    /\ Published(2)
    /\ TargetCount = 3
    /\ pc = "join"
    /\ chan # <<>>
    /\ output = <<>>

(***************************************************************************)
(* C16.  The waves partition the enumeration in order, c targets each but  *)
(* possibly the last.                                                      *)
(***************************************************************************)
\* the target at position n (from 1) of the enumeration, as main has taken it
TargetAt(n) ==
    IF args.is_range THEN Ipv4ToString(yielded[n]) ELSE args.ips[n]

\* the threads of wave w
WaveOf(w) == {t \in Threads : threads[t].wave = w}

\* the waves launched so far
Waves == {threads[t].wave : t \in Threads}

\* C16: thread t probes the target at position t of the enumeration and
\* belongs to wave (t-1) div c, counted from 1 here; a wave that a later
\* wave follows has exactly c threads, no launched wave is empty, and a
\* reported run has launched all N targets in ceil(N/c) waves
C16_WavesPartitionInOrder ==
    Sweeping =>
       LET c == args.concurrency
       IN /\ \A t \in Threads :
                /\ threads[t].ip = TargetAt(t)
                /\ threads[t].wave = ((t - 1) \div c) + 1
          /\ \A w \in Waves :
                /\ WaveOf(w) # {}
                /\ w > 1 => (w - 1) \in Waves
                /\ (w + 1) \in Waves => Cardinality(WaveOf(w)) = c
                /\ Cardinality(WaveOf(w)) <= c
          /\ Reported =>
                /\ Len(threads) = TargetCount
                /\ Cardinality(Waves) = (TargetCount + c - 1) \div c

\* three targets at concurrency 2: a wave of two, then a wave of one
C16_Witness ==
    /\ Reported
    /\ args.concurrency = 2
    /\ Len(threads) = 3
    /\ WaveOf(1) = {1, 2}
    /\ WaveOf(2) = {3}

(***************************************************************************)
(* C17.  The effective concurrency and attempts per host are at least 1:  *)
(* a supplied 0 is raised to 1.                                            *)
(***************************************************************************)
\* main has left the scheduling loop
LoopLeft == pc \in {"drop_tx", "recv", "print", "exited"}

\* C17: in every run that got past its arguments concurrency and count are
\* at least 1, and 1 where the command line says 0; a wave that is being
\* spawned or joined is not empty; main leaves the scheduling loop only
\* when all targets, of which there is at least one, were launched; so the
\* report has a line for every target whose thread did not panic
C17_AtLeastOne ==
    Sweeping =>
       /\ args.concurrency >= 1
       /\ args.count >= 1
       /\ argv.concurrency = <<DecStr(0)>> => args.concurrency = 1
       /\ argv.count = <<DecStr(0)>> => args.count = 1
       /\ pc \in {"spawn", "join"} => batch # <<>> \/ handles # <<>>
       /\ pc = "spawn" => Len(batch) + Len(handles) <= args.concurrency
       /\ LoopLeft => Len(threads) = TargetCount /\ TargetCount >= 1
       /\ Reported => Len(output) = TargetCount - Cardinality(Panicked)

\* -c 0 -n 0 and three targets: three waves of one, three lines
C17_Witness ==
    /\ Reported
    /\ argv.concurrency = <<DecStr(0)>>
    /\ argv.count = <<DecStr(0)>>
    /\ Len(output) = 3
    /\ \A t \in Threads : threads[t].wave = t

(***************************************************************************)
(* C18.  Of two targets with equal sort keys in different waves, the one   *)
(* of the earlier wave is printed first, whatever the interleaving; in     *)
(* one wave either order can be printed.                                   *)
(***************************************************************************)
\* the sort key of thread t's target, from the target text
TargetKey(t) == IF IsV4Target(t) THEN NumOf(OctetsOf(t)) ELSE <<0, 0>>

\* t's wave is before u's and their targets have equal keys
TieAcrossWaves(t, u) ==
    /\ threads[t].wave < threads[u].wave
    /\ TargetKey(t) = TargetKey(u)

\* C18: for threads t and u with equal keys, t of an earlier wave: u sends
\* only after t has ended, so if both published t's outcome arrived
\* first; u's line is never printed while a line of t is still to come;
\* and in the report t's line is above u's
C18_EarlierWaveFirstOnTies ==
    LET key == [t \in Threads |-> TargetKey(t)]
    IN \A t, u \in Threads :
          (threads[t].wave < threads[u].wave /\ key[t] = key[u]) =>
             /\ Ended(t)
             /\ (Published(t) /\ Published(u)) => ArrivalPos(t) < ArrivalPos(u)
             /\ (Published(t) /\ LinesOf(u) # {}) => PrintedBefore(t, u)
             /\ ~PrintedBefore(u, t)
             /\ (Reported /\ Published(t) /\ Published(u)) => PrintedBefore(t, u)

\* 10.0.0.1 is given first and third at concurrency 2: the two probes are
\* in different waves and the first one's line is printed first, after the
\* line of 0.0.0.0
C18_Witness ==
    /\ Reported
    /\ Len(output) = 3
    /\ TieAcrossWaves(1, 3)
    /\ IsV4Target(1)
    /\ output[1].src = 2
    /\ output[2].src = 1
    /\ output[3].src = 3

\* in one wave: two probes of the same address, the second printed first
C18_SameWaveSecondFirst ==
    /\ Reported
    /\ Len(output) = 2
    /\ threads[1].wave = threads[2].wave
    /\ IsV4Target(1)
    /\ TargetKey(1) = TargetKey(2)
    /\ output[1].src = 2
    /\ output[2].src = 1

\* in one wave: the same two probes, the first printed first
C18_SameWaveFirstFirst ==
    /\ Reported
    /\ Len(output) = 2
    /\ threads[1].wave = threads[2].wave
    /\ IsV4Target(1)
    /\ TargetKey(1) = TargetKey(2)
    /\ output[1].src = 1
    /\ output[2].src = 2

(***************************************************************************)
(* C19.  Range mode: every target is a valid IPv4 text, every outcome is   *)
(* up or down and keyed by its address, the keys are distinct and the      *)
(* lines are printed in the ascending order of enumeration, start to end.  *)
(***************************************************************************)
\* the address at position n (from 1) of the range of the command line
RangeAt(n) ==
    LET v == PlusExact(NumOf(RangeLo), n - 1)
    IN <<v[1] \div 256, v[1] % 256, v[2] \div 256, v[2] % 256>>

\* thread t probes the address main took at position t, its text parses
\* back to that address, and its outcomes are up or down lines keyed by
\* the numeric value of the address
RangeTargetProbed(t) ==
    /\ threads[t].ip = Ipv4ToString(yielded[t])
    /\ IsV4Target(t)
    /\ OctetsOf(t) = yielded[t]
    /\ \A r \in ResultsOf(t) :
          /\ r.msg \in {MsgUp(threads[t].ip), MsgDown(threads[t].ip)}
          /\ r.sort_key = NumOf(yielded[t])

\* the printed lines are in the order of enumeration, one per thread that
\* did not panic
PrintedInEnumerationOrder ==
    /\ \A j, k \in DOMAIN output : j < k => output[j].src < output[k].src
    /\ {output[j].src : j \in DOMAIN output} = Threads \ Panicked

\* C19: in range mode the addresses taken are those of the range in
\* ascending order from start to end (so all keys are distinct), every
\* thread probes a valid IPv4 text and publishes an up or down line keyed
\* by its address, and the report lists the lines in that order
C19_RangeLinesAscendFromStart ==
    (Sweeping /\ args.is_range) =>
       /\ \A n \in DOMAIN yielded :
             /\ yielded[n] = RangeAt(n)
             /\ ~OctLess(RangeHi, yielded[n])
       /\ \A n, m \in DOMAIN yielded : n < m => OctLess(yielded[n], yielded[m])
       /\ \A t \in Threads : RangeTargetProbed(t)
       /\ Reported => PrintedInEnumerationOrder

\* the same for the ranges that do not end at 255.255.255.255
C19_BelowMaxLinesAscendFromStart ==
    RangeEndsAtMax \/ C19_RangeLinesAscendFromStart

\* every thread of a range run probes a valid IPv4 text and publishes an
\* up or down line keyed by its address, also past 255.255.255.255
C19_RangeTargetsAreV4 ==
    (Sweeping /\ args.is_range) => \A t \in Threads : RangeTargetProbed(t)

\* 0.0.255.255 to 0.1.0.0 at concurrency 2, the second answered first:
\* printed in the order of the range
C19_BelowMaxWitness ==
    /\ Reported
    /\ args.is_range
    /\ arrived = <<2, 1>>
    /\ Len(output) = 2
    /\ output[1].sort_key = <<0, 65535>>
    /\ output[2].sort_key = <<1, 0>>

(***************************************************************************)
(* C20.  Every line of an invalid or IPv6 target is printed before every   *)
(* line of an IPv4 target other than 0.0.0.0; 0.0.0.0, keyed 0 like them,  *)
(* can be printed before, between or after them.                           *)
(***************************************************************************)
\* thread t's target is not probed: invalid text or IPv6
Unprobed(t) == ~IsV4Target(t)

\* thread t's target is an IPv4 address other than 0.0.0.0
NonZeroV4(t) == IsV4Target(t) /\ OctetsOf(t) # Addr_0_0_0_0

\* thread t's target is 0.0.0.0
ZeroV4(t) == IsV4Target(t) /\ OctetsOf(t) = Addr_0_0_0_0

\* C20: for an invalid or IPv6 target t and an IPv4 target u other than
\* 0.0.0.0, u's line is never above t's: while the report is printed u's
\* line comes only after t's, and in the report t's line is above u's
C20_UnprobedBeforeNonZeroV4 ==
    LET unprobed == {t \in Threads : Unprobed(t)}
        nonzero == {u \in Threads : NonZeroV4(u)}
    IN \A t \in unprobed, u \in nonzero :
          /\ ~PrintedBefore(u, t)
          /\ (Published(t) /\ LinesOf(u) # {}) => PrintedBefore(t, u)
          /\ (Reported /\ Published(t) /\ Published(u)) => PrintedBefore(t, u)

\* 127.0.0.1 and 10.0.0.1 answered before not-an-ip was classified: the
\* line of not-an-ip is printed first all the same
C20_Witness ==
    /\ Reported
    /\ Len(output) = 3
    /\ arrived = <<1, 3, 2>>
    /\ Unprobed(2) /\ NonZeroV4(1) /\ NonZeroV4(3)
    /\ output[1].src = 2
    /\ output[2].src = 3
    /\ output[3].src = 1

\* not-an-ip, 0.0.0.0, ::1 in one wave: the line of 0.0.0.0 first
C20_ZeroBefore ==
    /\ Reported
    /\ Len(output) = 3
    /\ Unprobed(1) /\ ZeroV4(2) /\ Unprobed(3)
    /\ output[1].src = 2

\* the line of 0.0.0.0 between the two others
C20_ZeroBetween ==
    /\ Reported
    /\ Len(output) = 3
    /\ Unprobed(1) /\ ZeroV4(2) /\ Unprobed(3)
    /\ output[2].src = 2

\* the line of 0.0.0.0 last
C20_ZeroAfter ==
    /\ Reported
    /\ Len(output) = 3
    /\ Unprobed(1) /\ ZeroV4(2) /\ Unprobed(3)
    /\ output[3].src = 2

====
